---- MODULE Spec2Model ----
(***************************************************************************)
(* Model of rag_test.py: the Neo4jGraphRAG client operations, the external *)
(* store they act on, and the five-check sequence of run_graphrag_test.    *)
(*                                                                         *)
(* Each request the client sends to the store (one session.run call) is    *)
(* one step. A request either succeeds, or raises a server-reported        *)
(* Neo4jError, or raises another exception of the driver (for instance     *)
(* ServiceUnavailable, which is not a Neo4jError). A request that raises   *)
(* leaves the store unchanged (auto-commit transaction, rolled back).      *)
(* Time is counted in the wait of _wait_for_index_online only, in the      *)
(* units of its timeout; it passes in time.sleep(2).                       *)
(*                                                                         *)
(* Around the run stands main: the construction of the client, which may   *)
(* fail, and after the run the closing of the client, the report and the   *)
(* exit code. generate_markdown_table is also modelled on its own, applied *)
(* to lists of outcomes of any content.                                    *)
(***************************************************************************)
EXTENDS Integers, Sequences, FiniteSets, TLC

VARIABLES
    pc,              \* position of run_graphrag_test
    results,         \* results: List[TestResult]
    raised,          \* per check, the exception its except-handler caught
    calls,           \* per request kind, how many times it was issued
    injected,        \* whether some request so far ended in an exception
    nodes,           \* the store's HealthEntity nodes, in creation order
    rels,            \* the store's relationships, in creation order
    index,           \* state of the index health_vector_index
    sessions,        \* number of driver sessions currently open
    elapsed,         \* time.time() - start_time of _wait_for_index_online
    onlineAt,        \* elapsed time at which the index was ONLINE first, or -1
    waitResult,      \* how _wait_for_index_online ended
    linkOutcome,     \* how the two attempts of create_relationships ended
    search_results,  \* what vector_search_with_graph returned
    counts,          \* node_count, rel_count, nodes_with_embeddings of check 5
    documents,       \* the documents handed to insert_health_documents
    relationships,   \* the triples handed to create_relationships
    client,          \* main: the Neo4jGraphRAG object and its driver
    exit_code,       \* main: the argument of sys.exit, or NoExit
    report,          \* what generate_markdown_table returned, or NoReport
    cancelled,       \* whether the budget of the caller of the wait has run out
    dropOutcome      \* how the DROP INDEX request of clear_database ended

vars == << pc, results, raised, calls, injected, nodes, rels, index, sessions, elapsed,
           onlineAt, waitResult, linkOutcome, search_results, counts,
           documents, relationships, client, exit_code, report, cancelled,
           dropOutcome >>

storeVars == << nodes, rels, index >>
dataVars == << documents, relationships >>
mainVars == << client, exit_code, report >>
auxVars == << mainVars, cancelled, dropOutcome >>

----------------------------------------------------------------------------
(* Program constants *)

\* _wait_for_index_online(self, timeout: int = 60)
Timeout == 60

\* time.sleep(2)
PollInterval == 2

\* vector_search_with_graph(query_embedding, top_k=3)
TopK == 3

\* expected_nodes = 3
ExpectedNodes == 3

\* expected_rels = 3
ExpectedRels == 3

\* query_embedding = generate_mock_embedding(seed=42)
QuerySeed == 42

(* Bounds of the model *)

\* at most this many nodes are left in the store by earlier runs
MaxLeftover == 2

\* longest list of outcomes handed to generate_markdown_table on its own
MaxOutcomes == 3

\* largest latency_ms of such an outcome
MaxLatency == 1

----------------------------------------------------------------------------
(* Data *)

\* an absent property (Cypher null / Python None)
NULL == "null"

\* An embedding is modelled by the seed generate_mock_embedding built it
\* from: the function is deterministic, so equal seeds are equal vectors.
NoEmbedding == 0

Doc(t, n, e) == [node_type |-> t, name |-> n, embedding |-> e]

SampleDocuments ==
    << Doc("Symptom", "Arrhythmia", 42),
       Doc("Drug", "Beta-Blocker", 43),
       Doc("Diagnosis", "Atrial Fibrillation", 44) >>

SampleRelationships ==
    << << "Arrhythmia", "TREATED_BY", "Beta-Blocker" >>,
       << "Arrhythmia", "MANIFESTS_AS", "Atrial Fibrillation" >>,
       << "Atrial Fibrillation", "TREATED_BY", "Beta-Blocker" >> >>

\* The test names, in step order.
CheckName ==
    << "Connection Verification",
       "Database Initialization",
       "Data Ingestion",
       "Hybrid Vector + Graph Search",
       "Data Consistency Verification" >>

IndexStates == { "ABSENT", "POPULATING", "ONLINE" }

\* How a request to the store ends.
Outcomes == { "ok", "Neo4jError", "DriverError" }

RequestKinds ==
    { "verify", "drop_index", "delete_all", "create_index", "poll", "insert",
      "link_dynamic", "link_fallback", "search", "count" }

\* The requests of each check.
RequestsOfCheck(k) ==
    CASE k = 1 -> { "verify" }
      [] k = 2 -> { "drop_index", "delete_all", "create_index", "poll" }
      [] k = 3 -> { "insert", "link_dynamic", "link_fallback" }
      [] k = 4 -> { "search" }
      [] k = 5 -> { "count" }

----------------------------------------------------------------------------
(* Sequences *)

Min(a, b) == IF a < b THEN a ELSE b

RECURSIVE SetToSeq(_)
SetToSeq(S) ==
    IF S = {} THEN << >>
    ELSE LET x == CHOOSE y \in S : \A z \in S : y[1] < z[1] \/ (y[1] = z[1] /\ y[2] <= z[2])
         IN  << x >> \o SetToSeq(S \ { x })

RECURSIVE Flatten(_)
Flatten(ss) == IF ss = << >> THEN << >> ELSE Head(ss) \o Flatten(Tail(ss))

----------------------------------------------------------------------------
(* The store: what each Cypher request does *)

\* MATCH (n:HealthEntity {name: nm})
MatchByName(ns, nm) == { i \in 1..Len(ns) : ns[i].name = nm }

\* UNWIND $docs AS doc CREATE (n:HealthEntity) SET ...
InsertedNodes(ns, docs) == ns \o docs

\* AfterRead as a query with a DETACH DELETE of what it matched would do
AfterReadDeleted(xs) == << >>

\* RETURN 1 AS test; CALL db.index.vector.queryNodes ... RETURN ...;
\* MATCH ... RETURN count(...): queries without CREATE, SET or DELETE leave
\* the nodes, and the relationships, as they are
AfterRead(xs) == xs

\* Deleted as a deletion that matches nothing would leave the store
DeletedNothing(xs) == xs

\* MATCH (n) DETACH DELETE n: what is left of the nodes, and of the
\* relationships, of the store
Deleted(xs) == << >>

\* One created relationship. The dynamic strategy (apoc.create.relationship)
\* takes the label from the data; the fallback fixes it to RELATED_TO and
\* keeps the type as a property.
Relationship(i, j, t, dynamic) ==
    [ src |-> i, tgt |-> j,
      label |-> IF dynamic THEN t ELSE "RELATED_TO",
      type |-> IF dynamic THEN NULL ELSE t ]

\* RelationshipsOfTriple with the name left out of the MATCH of the target
RelationshipsOfTripleAnyTarget(ns, tr, dynamic) ==
    LET pairs == SetToSeq({ << i, j >> : i \in MatchByName(ns, tr[1]),
                                         j \in 1..Len(ns) })
    IN  [ m \in 1..Len(pairs) |->
            Relationship(pairs[m][1], pairs[m][2], tr[2], dynamic) ]

\* RelationshipsOfTriple with an optional match of the target: a triple
\* whose target is missing links the source to itself
RelationshipsOfTripleOptionalTarget(ns, tr, dynamic) ==
    LET targets == IF MatchByName(ns, tr[3]) = {}
                   THEN MatchByName(ns, tr[1]) ELSE MatchByName(ns, tr[3])
        pairs == SetToSeq({ << i, j >> : i \in MatchByName(ns, tr[1]),
                                         j \in targets })
    IN  [ m \in 1..Len(pairs) |->
            Relationship(pairs[m][1], pairs[m][2], tr[2], dynamic) ]

\* What one triple creates: a relationship for every pair of matching nodes,
\* and nothing when the source or the target matches no node.
RelationshipsOfTriple(ns, tr, dynamic) ==
    LET pairs == SetToSeq({ << i, j >> : i \in MatchByName(ns, tr[1]),
                                         j \in MatchByName(ns, tr[3]) })
    IN  [ m \in 1..Len(pairs) |->
            Relationship(pairs[m][1], pairs[m][2], tr[2], dynamic) ]

\* UNWIND $rels AS rel MATCH (source) MATCH (target) CREATE/CALL ...
CreatedRelationships(ns, T, dynamic) ==
    Flatten([ m \in 1..Len(T) |-> RelationshipsOfTriple(ns, T[m], dynamic) ])

\* the nodes the vector index covers: HealthEntity nodes with an embedding
Indexed(ns) == { i \in 1..Len(ns) : ns[i].embedding # NoEmbedding }

\* Cosine similarity in percent. The vector of a seed is a unit vector, so
\* it scores 100 against itself; vectors of different seeds score less, and
\* in an order the model leaves open (all 50, ties broken by the server).
Score(q, e) == IF q = e THEN 100 ELSE 50

\* CALL db.index.vector.queryNodes(index, top_k, query_vector) ... ORDER BY
\* score DESC: the rankings the server may return.
Rankings(ns, q, k) ==
    LET n == Min(k, Cardinality(Indexed(ns)))
    IN  { s \in [1..n -> Indexed(ns)] :
            /\ \A a, b \in 1..n : a # b => s[a] # s[b]
            /\ \A a, b \in 1..n :
                 a < b => Score(q, ns[s[a]].embedding) >= Score(q, ns[s[b]].embedding)
            /\ \A i \in Indexed(ns) :
                 (\A a \in 1..n : s[a] # i) =>
                     \A a \in 1..n :
                         Score(q, ns[s[a]].embedding) >= Score(q, ns[i].embedding) }

\* Collected with MATCH in place of OPTIONAL MATCH: a node without outgoing
\* relationship yields no row
CollectedInnerJoin(ns, rs, i) ==
    LET out == SelectSeq(rs, LAMBDA r : r.src = i)
    IN  [ m \in 1..Len(out) |->
            [ type |-> out[m].label,
              target_name |-> ns[out[m].tgt].name,
              target_type |-> ns[out[m].tgt].node_type ] ]

\* OPTIONAL MATCH (node)-[r]->(related:HealthEntity) ... collect({...}):
\* a node without outgoing relationship yields one map of nulls.
Collected(ns, rs, i) ==
    LET out == SelectSeq(rs, LAMBDA r : r.src = i)
    IN  IF out = << >>
        THEN << [ type |-> NULL, target_name |-> NULL, target_type |-> NULL ] >>
        ELSE [ m \in 1..Len(out) |->
                 [ type |-> out[m].label,
                   target_name |-> ns[out[m].tgt].name,
                   target_type |-> ns[out[m].tgt].node_type ] ]

\* [rel for rel in record["relationships"] if rel["target_name"] is not None]
FilterRelationships(collected) ==
    SelectSeq(collected, LAMBDA rel : rel.target_name # NULL)

\* one element of the list vector_search_with_graph returns
Hit(ns, rs, i, q) ==
    [ name |-> ns[i].name,
      node_type |-> ns[i].node_type,
      similarity_score |-> Score(q, ns[i].embedding),
      relationships |-> FilterRelationships(Collected(ns, rs, i)) ]

\* RETURN node.name, ..., collect({...}) AS relationships: one row per
\* ranked node that the match of its relationships has kept
Rows(ns, rs, s) == SelectSeq(s, LAMBDA i : Collected(ns, rs, i) # << >>)

\* the lists vector_search_with_graph may return
SearchResults(ns, rs, q, k) ==
    { [ m \in 1..Len(Rows(ns, rs, s)) |-> Hit(ns, rs, Rows(ns, rs, s)[m], q) ] :
        s \in Rankings(ns, q, k) }

\* MATCH (n:HealthEntity) RETURN count(n)
NodeCount(ns) == Len(ns)

\* MATCH ()-[r]->() RETURN count(r)
RelCount(rs) == Len(rs)

\* MATCH (n:HealthEntity) WHERE n.embedding IS NOT NULL RETURN count(n)
EmbeddedCount(ns) == Cardinality(Indexed(ns))

----------------------------------------------------------------------------
(* The client's decisions *)

\* Acquire as an operation that opens a second session beside its own
AcquirePair(s) == s + 2

\* "with self.driver.session() as session": a session is acquired
Acquire(s) == s + 1

\* Release as "session = self.driver.session()" without with would do
ReleaseLeaks(s) == s

\* leaving a with block, by its end, a return or an exception: the session
\* is released
Release(s) == s - 1

\* VerifyCatches with "except Neo4jError" in place of "except Exception"
VerifyCatchesNeo4jError(o) == o = "Neo4jError"

\* verify_connection: "except Exception" around the session and the probe
VerifyCatches(o) == o # "ok"

\* verify_connection: True when the probe returned 1, False on any exception
VerifyConnectionResult(o) == o = "ok"

\* DropFailureIgnored with "except Exception" in place of "except Neo4jError"
DropFailureIgnoredAlways(o) == o # "ok"

\* clear_database: "except Neo4jError" around the index drop
DropFailureIgnored(o) == o = "Neo4jError"

\* CREATE VECTOR INDEX health_vector_index IF NOT EXISTS
IndexAfterCreate(ix) == IF ix = "ABSENT" THEN "POPULATING" ELSE ix

\* CreateFailurePropagates without the "raise" of the handler
CreateFailureSwallowed(o) == o = "DriverError"

\* create_vector_index: "except Neo4jError as e: logger.error(...); raise",
\* so a failure leaves the function as an exception, caught or not
CreateFailurePropagates(o) == o # "ok"

\* FallsBack with "except Exception" in place of "except Neo4jError"
FallsBackOnAnyFailure(o) == o # "ok"

\* create_relationships: "except Neo4jError" around the dynamic attempt
FallsBack(o) == o = "Neo4jError"

\* WaitContinues with "<=" in place of "<"
WaitContinuesAtTimeout(t) == t <= Timeout

\* while time.time() - start_time < timeout
WaitContinues(t) == t < Timeout

\* SeenOnline as "if record:" alone would decide
SeenOnlineAnyState(state) == state # "ABSENT"

\* if record and record["state"] == "ONLINE"
SeenOnline(state) == state = "ONLINE"

\* SearchOK without has_relationships
SearchOKIgnoresRelationships(hits) ==
    Len(hits) > 0 /\ hits[1].name = "Arrhythmia"

\* check 4: len(search_results) > 0 and is_correct_match and has_relationships
SearchOK(hits) ==
    /\ Len(hits) > 0
    /\ hits[1].name = "Arrhythmia"
    /\ Len(hits[1].relationships) > 0

\* ConsistencyOK without the comparison of nodes_with_embeddings
ConsistencyOKIgnoresEmbeddings(n, r, e) ==
    n = ExpectedNodes /\ r = ExpectedRels

\* check 5: node_count == expected_nodes and rel_count == expected_rels and
\* nodes_with_embeddings == expected_nodes
ConsistencyOK(n, r, e) ==
    n = ExpectedNodes /\ r = ExpectedRels /\ e = ExpectedNodes

\* HandlerCatches with "except Neo4jError" in place of "except Exception"
HandlerCatchesNeo4jError(e) == e \in { "Exception", "Neo4jError" }

\* "except Exception as e" of each check of run_graphrag_test: the check's
\* own Exception, Neo4jError, the other exceptions of the driver and
\* TimeoutError are all caught
HandlerCatches(e) == e \in { "Exception", "Neo4jError", "DriverError", "TimeoutError" }

\* AfterFail with the "return results" of check 3's handler left out
AfterFailNoReturn(k) ==
    IF k <= 2 THEN "done"
    ELSE IF k = 3 THEN "search" ELSE IF k = 4 THEN "consistency" ELSE "done"

\* AfterFail with a "return results" in the handler of check 4 as well
AfterFailReturnsAlways(k) == "done"

\* AfterFail with check 4 run again after it has failed
AfterFailRetriesSearch(k) ==
    IF k <= 3 THEN "done" ELSE IF k = 4 THEN "search" ELSE "done"

\* where run_graphrag_test goes after the except-handler of check k:
\* "return results" in checks 1-3, fall through in checks 4 and 5
AfterFail(k) ==
    IF k <= 3 THEN "done" ELSE IF k = 4 THEN "consistency" ELSE "done"

\* Record storing the outcome over the last one instead of appending it
RecordOverwrite(rs, r) ==
    IF rs = << >> THEN << r >> ELSE [ rs EXCEPT ![Len(rs)] = r ]

\* results.append(TestResult(...))
Record(rs, r) == Append(rs, r)

\* a count that does not apply to an outcome
NA == 0 - 1

Detail(msg, n, r, e) == [ msg |-> msg, nodes |-> n, rels |-> r, embedded |-> e ]

\* latency_ms = (time.time() - start_time) * 1000 of check k: time passes in
\* the wait of check 2 only
Latency(k) == IF k = 2 THEN elapsed * 1000 ELSE 0

TestResult(k, status, details) ==
    [ test_name |-> CheckName[k], status |-> status, latency_ms |-> Latency(k),
      details |-> details ]

----------------------------------------------------------------------------
(* generate_markdown_table *)

RECURSIVE CountPass(_)
\* passed_tests = sum(1 for r in results if r.status == "PASS")
CountPass(rs) ==
    IF rs = << >> THEN 0
    ELSE (IF Head(rs).status = "PASS" THEN 1 ELSE 0) + CountPass(Tail(rs))

\* Banner with "passed_tests > 0" in place of "passed_tests == total_tests"
BannerAnyPassed(rs) ==
    IF CountPass(rs) > 0
    THEN [ text |-> "All tests passed!", failed |-> 0 ]
    ELSE [ text |-> "test(s) failed", failed |-> Len(rs) - CountPass(rs) ]

\* the Status line: "All tests passed!" or "<n> test(s) failed"
Banner(rs) ==
    IF CountPass(rs) = Len(rs)
    THEN [ text |-> "All tests passed!", failed |-> 0 ]
    ELSE [ text |-> "test(s) failed", failed |-> Len(rs) - CountPass(rs) ]

RECURSIVE SumLatency(_)
\* sum(r.latency_ms for r in results)
SumLatency(rs) ==
    IF rs = << >> THEN 0 ELSE Head(rs).latency_ms + SumLatency(Tail(rs))

\* avg_latency = sum(...) / total_tests if total_tests > 0 else 0, as the
\* Summary line prints it: in hundredths of a millisecond
AvgLatency(rs) ==
    IF Len(rs) > 0 THEN (SumLatency(rs) * 100) \div Len(rs) ELSE 0

\* one line of the table
Row(result) ==
    [ test_name |-> result.test_name,
      status_icon |-> IF result.status = "PASS" THEN "check" ELSE "cross",
      status |-> result.status,
      latency_ms |-> result.latency_ms,
      details |-> result.details ]

\* generate_markdown_table: the Summary line, the Status line and the rows
\* (the Test Run line, a timestamp, is left out)
generate_markdown_table(rs) ==
    [ passed_tests |-> CountPass(rs),
      failed_tests |-> Len(rs) - CountPass(rs),
      total_tests |-> Len(rs),
      avg_latency |-> AvgLatency(rs),
      status_line |-> Banner(rs),
      rows |-> [ i \in 1..Len(rs) |-> Row(rs[i]) ] ]

\* no report has been generated
NoReport == [ total_tests |-> NA ]

----------------------------------------------------------------------------
(* main *)

\* no call of sys.exit yet
NoExit == 0 - 1

\* ExitCode with any() in place of all()
ExitCodeAnyPassed(rs) ==
    IF \E i \in 1..Len(rs) : rs[i].status = "PASS" THEN 0 ELSE 1

\* all_passed = all(r.status == "PASS" for r in test_results);
\* sys.exit(0 if all_passed else 1)
ExitCode(rs) ==
    IF \A i \in 1..Len(rs) : rs[i].status = "PASS" THEN 0 ELSE 1

----------------------------------------------------------------------------
(* run_graphrag_test: bookkeeping shared by the checks *)

\* a request of the given kind is sent and ends with outcome o
Issue(kind, o) ==
    /\ calls' = [ calls EXCEPT ![kind] = @ + 1 ]
    /\ injected' = (injected \/ o # "ok")

\* the PASS branch of check k, continuing at `next`
Pass(k, details, next) ==
    /\ results' = Record(results, TestResult(k, "PASS", details))
    /\ pc' = next
    /\ UNCHANGED raised

\* the except-handler of check k, having caught exception e
Fail(k, e, details) ==
    /\ raised' = [ raised EXCEPT ![k] = e ]
    /\ IF HandlerCatches(e)
       THEN /\ results' = Record(results, TestResult(k, "FAIL", details))
            /\ pc' = AfterFail(k)
       ELSE /\ pc' = "propagated"
            /\ UNCHANGED results

----------------------------------------------------------------------------
(* Check 1: Connection Verification *)

VerifyConnection ==
    /\ pc = "check1"
    /\ client = "open"
    /\ \E o \in Outcomes :
         /\ Issue("verify", o)
         /\ IF o # "ok" /\ ~VerifyCatches(o)
            THEN Fail(1, o, Detail(o, NA, NA, NA))
            ELSE IF VerifyConnectionResult(o)
            THEN Pass(1, Detail("Successfully connected to Neo4j database", NA, NA, NA),
                      "clear_drop")
            ELSE Fail(1, "Exception",
                      Detail("Connection verification returned False", NA, NA, NA))
    /\ sessions' = Release(Acquire(sessions))
    /\ nodes' = AfterRead(nodes)
    /\ rels' = AfterRead(rels)
    /\ UNCHANGED << index, dataVars, elapsed, onlineAt, waitResult,
                    linkOutcome, search_results, counts, auxVars >>

----------------------------------------------------------------------------
(* Check 2: Database Initialization *)

\* clear_database: DROP INDEX health_vector_index IF EXISTS
DropIndex ==
    /\ pc = "clear_drop"
    /\ \E o \in Outcomes :
         /\ Issue("drop_index", o)
         /\ dropOutcome' = o
         /\ IF o = "ok" \/ DropFailureIgnored(o)
            THEN /\ index' = IF o = "ok" THEN "ABSENT" ELSE index
                 /\ sessions' = Acquire(sessions)
                 /\ pc' = "clear_delete"
                 /\ UNCHANGED << results, raised >>
            ELSE /\ Fail(2, o, Detail(o, NA, NA, NA))
                 /\ sessions' = Release(Acquire(sessions))
                 /\ UNCHANGED index
    /\ UNCHANGED << nodes, rels, dataVars, elapsed, onlineAt, waitResult,
                    linkOutcome, search_results, counts, mainVars, cancelled >>

\* clear_database: MATCH (n) DETACH DELETE n
DeleteAll ==
    /\ pc = "clear_delete"
    /\ \E o \in Outcomes :
         /\ Issue("delete_all", o)
         /\ sessions' = Release(sessions)
         /\ IF o = "ok"
            THEN /\ nodes' = Deleted(nodes)
                 /\ rels' = Deleted(rels)
                 /\ pc' = "create_index"
                 /\ UNCHANGED << results, raised >>
            ELSE /\ Fail(2, o, Detail(o, NA, NA, NA))
                 /\ UNCHANGED << nodes, rels >>
    /\ UNCHANGED << index, dataVars, elapsed, onlineAt, waitResult, linkOutcome,
                    search_results, counts, auxVars >>

\* create_vector_index: CREATE VECTOR INDEX ... IF NOT EXISTS, and the
\* start of _wait_for_index_online (start_time = time.time())
CreateIndex ==
    /\ pc = "create_index"
    /\ \E o \in Outcomes :
         /\ Issue("create_index", o)
         /\ IF o = "ok"
            THEN /\ index' = IndexAfterCreate(index)
                 /\ sessions' = Acquire(sessions)
                 /\ elapsed' = 0
                 /\ onlineAt' = IF index = "ONLINE" THEN 0 ELSE -1
                 /\ pc' = "wait_loop"
                 /\ UNCHANGED << results, raised >>
            ELSE IF CreateFailurePropagates(o)
            THEN /\ Fail(2, o, Detail(o, NA, NA, NA))
                 /\ sessions' = Release(Acquire(sessions))
                 /\ UNCHANGED << index, elapsed, onlineAt >>
            ELSE /\ Pass(2, Detail("Database cleared and vector index created",
                                   NA, NA, NA), "insert")
                 /\ sessions' = Release(Acquire(sessions))
                 /\ UNCHANGED << index, elapsed, onlineAt >>
    /\ UNCHANGED << nodes, rels, dataVars, waitResult, linkOutcome,
                    search_results, counts, auxVars >>

\* _wait_for_index_online: one iteration of the loop up to time.sleep:
\* SHOW INDEXES ... RETURN state
Poll ==
    /\ pc = "wait_loop"
    /\ WaitContinues(elapsed)
    /\ \E o \in Outcomes :
         /\ Issue("poll", o)
         /\ IF o = "ok"
            THEN IF SeenOnline(index)
                 THEN /\ waitResult' = "returned"
                      /\ sessions' = Release(Release(Acquire(sessions)))
                      /\ Pass(2, Detail("Database cleared and vector index created",
                                        NA, NA, NA), "insert")
                 ELSE /\ pc' = "wait_sleep"
                      /\ sessions' = Acquire(sessions)
                      /\ UNCHANGED << results, raised, waitResult >>
            ELSE /\ waitResult' = o
                 /\ sessions' = Release(Release(Acquire(sessions)))
                 /\ Fail(2, o, Detail(o, NA, NA, NA))
    /\ UNCHANGED << storeVars, dataVars, elapsed, onlineAt, linkOutcome,
                    search_results, counts, auxVars >>

\* _wait_for_index_online: time.sleep(2), then the polling session closes
Sleep ==
    /\ pc = "wait_sleep"
    /\ elapsed' = elapsed + PollInterval
    /\ sessions' = Release(sessions)
    /\ pc' = "wait_loop"
    /\ UNCHANGED << results, raised, calls, injected, storeVars, dataVars, onlineAt,
                    waitResult, linkOutcome, search_results, counts, auxVars >>

\* _wait_for_index_online: the loop condition is false, raise TimeoutError
WaitTimeout ==
    /\ pc = "wait_loop"
    /\ ~WaitContinues(elapsed)
    /\ waitResult' = "TimeoutError"
    /\ sessions' = Release(sessions)
    /\ Fail(2, "TimeoutError", Detail("TimeoutError", NA, NA, NA))
    /\ UNCHANGED << calls, injected, storeVars, dataVars, elapsed, onlineAt,
                    linkOutcome, search_results, counts, auxVars >>

\* The server finishes building the index, at a moment of its own choosing.
IndexComesOnline ==
    /\ pc # "done"
    /\ index = "POPULATING"
    /\ index' = "ONLINE"
    /\ onlineAt' = elapsed
    /\ UNCHANGED << pc, results, raised, calls, injected, nodes, rels, sessions,
                    elapsed, waitResult, linkOutcome, search_results, counts,
                    dataVars, auxVars >>

----------------------------------------------------------------------------
(* Check 3: Data Ingestion *)

\* insert_health_documents
InsertDocuments ==
    /\ pc = "insert"
    /\ \E o \in Outcomes :
         /\ Issue("insert", o)
         /\ IF o = "ok"
            THEN /\ nodes' = InsertedNodes(nodes, documents)
                 /\ pc' = "link_dynamic"
                 /\ UNCHANGED << results, raised >>
            ELSE /\ Fail(3, o, Detail(o, NA, NA, NA))
                 /\ UNCHANGED nodes
    /\ sessions' = Release(Acquire(sessions))
    /\ UNCHANGED << rels, index, dataVars, elapsed, onlineAt,
                    waitResult, linkOutcome, search_results, counts, auxVars >>

\* create_relationships: the attempt with apoc.create.relationship
LinkDynamic ==
    /\ pc = "link_dynamic"
    /\ \E o \in Outcomes :
         /\ Issue("link_dynamic", o)
         /\ linkOutcome' = [ linkOutcome EXCEPT !.dynamic = o ]
         /\ IF o = "ok"
            THEN /\ rels' = rels \o CreatedRelationships(nodes, relationships, TRUE)
                 /\ Pass(3, Detail("Ingested", Len(documents), Len(relationships), NA),
                         "search")
                 /\ sessions' = Release(Acquire(sessions))
            ELSE IF FallsBack(o)
            THEN /\ pc' = "link_fallback"
                 /\ sessions' = Acquire(sessions)
                 /\ UNCHANGED << rels, results, raised >>
            ELSE /\ Fail(3, o, Detail(o, NA, NA, NA))
                 /\ sessions' = Release(Acquire(sessions))
                 /\ UNCHANGED rels
    /\ UNCHANGED << nodes, index, dataVars, elapsed, onlineAt, waitResult,
                    search_results, counts, auxVars >>

\* create_relationships: the attempt with CREATE (source)-[r:RELATED_TO]->
LinkFallback ==
    /\ pc = "link_fallback"
    /\ \E o \in Outcomes :
         /\ Issue("link_fallback", o)
         /\ linkOutcome' = [ linkOutcome EXCEPT !.fallback = o ]
         /\ sessions' = Release(sessions)
         /\ IF o = "ok"
            THEN /\ rels' = rels \o CreatedRelationships(nodes, relationships, FALSE)
                 /\ Pass(3, Detail("Ingested", Len(documents), Len(relationships), NA),
                         "search")
            ELSE /\ Fail(3, o, Detail(o, NA, NA, NA))
                 /\ UNCHANGED rels
    /\ UNCHANGED << nodes, index, dataVars, elapsed, onlineAt, waitResult,
                    search_results, counts, auxVars >>

----------------------------------------------------------------------------
(* Check 4: Hybrid Vector + Graph Search *)

\* vector_search_with_graph(generate_mock_embedding(seed=42), top_k=3) and
\* the verdict on its result. The query fails on an index that is not ONLINE.
Search ==
    /\ pc = "search"
    /\ \E o \in Outcomes :
         /\ Issue("search", o)
         /\ IF o = "ok" /\ index = "ONLINE"
            THEN \E hits \in SearchResults(nodes, rels, QuerySeed, TopK) :
                   /\ search_results' = hits
                   /\ IF SearchOK(hits)
                      THEN Pass(4, Detail("Found correct match", NA,
                                          Len(hits[1].relationships), NA),
                                "consistency")
                      ELSE Fail(4, "Exception",
                                Detail(IF Len(hits) > 0
                                       THEN "Unexpected top result"
                                       ELSE "No search results returned",
                                       NA, NA, NA))
            ELSE /\ Fail(4, IF o = "ok" THEN "Neo4jError" ELSE o,
                         Detail(IF o = "ok" THEN "Neo4jError" ELSE o, NA, NA, NA))
                 /\ UNCHANGED search_results
    /\ sessions' = Release(Acquire(sessions))
    /\ nodes' = AfterRead(nodes)
    /\ rels' = AfterRead(rels)
    /\ UNCHANGED << index, dataVars, elapsed, onlineAt, waitResult,
                    linkOutcome, counts, auxVars >>

----------------------------------------------------------------------------
(* Check 5: Data Consistency Verification *)

\* the three count queries of one session and the verdict on them
Consistency ==
    /\ pc = "consistency"
    /\ \E o \in Outcomes :
         /\ Issue("count", o)
         /\ IF o = "ok"
            THEN LET node_count == NodeCount(nodes)
                     rel_count == RelCount(rels)
                     nodes_with_embeddings == EmbeddedCount(nodes)
                 IN  /\ counts' = [ node_count |-> node_count,
                                    rel_count |-> rel_count,
                                    nodes_with_embeddings |-> nodes_with_embeddings ]
                     /\ IF ConsistencyOK(node_count, rel_count, nodes_with_embeddings)
                        THEN Pass(5, Detail("Verified", node_count, rel_count, NA),
                                  "done")
                        ELSE Fail(5, "Exception",
                                  Detail("Data inconsistency", node_count, rel_count,
                                         nodes_with_embeddings))
            ELSE /\ Fail(5, o, Detail(o, NA, NA, NA))
                 /\ UNCHANGED counts
    /\ sessions' = Release(Acquire(sessions))
    /\ nodes' = AfterRead(nodes)
    /\ rels' = AfterRead(rels)
    /\ UNCHANGED << index, dataVars, elapsed, onlineAt, waitResult,
                    linkOutcome, search_results, auxVars >>

----------------------------------------------------------------------------
(* main *)

\* how Neo4jGraphRAG.__init__ may end
ConstructOutcomes == { "ok", "ServiceUnavailable", "AuthError" }

\* client = Neo4jGraphRAG(...); on an exception, sys.exit(1)
Construct ==
    /\ client = "none"
    /\ \E o \in ConstructOutcomes :
         IF o = "ok"
         THEN /\ client' = "open"
              /\ UNCHANGED exit_code
         ELSE /\ client' = "failed"
              /\ exit_code' = 1
    /\ UNCHANGED << pc, results, raised, calls, injected, storeVars, sessions,
                    elapsed, onlineAt, waitResult, linkOutcome, search_results,
                    counts, dataVars, report, cancelled, dropOutcome >>

\* run_graphrag_test has returned: client.close(), the report, sys.exit;
\* or it has raised: client.close() and sys.exit(1).
\* The console and the file the report is written to are taken to work.
MainExit ==
    /\ pc \in { "done", "propagated" }
    /\ client = "open"
    /\ client' = "closed"
    /\ IF pc = "propagated"
       THEN /\ exit_code' = 1
            /\ UNCHANGED report
       ELSE /\ report' = generate_markdown_table(results)
            /\ exit_code' = ExitCode(results)
    /\ UNCHANGED << pc, results, raised, calls, injected, storeVars, sessions,
                    elapsed, onlineAt, waitResult, linkOutcome, search_results,
                    counts, dataVars, cancelled, dropOutcome >>

\* The budget of whoever called the wait runs out while the wait goes on.
\* Nothing of _wait_for_index_online or create_vector_index reads it: they
\* take no deadline and no context.
CallerDeadline ==
    /\ pc \in { "wait_loop", "wait_sleep" }
    /\ ~cancelled
    /\ cancelled' = TRUE
    /\ UNCHANGED << pc, results, raised, calls, injected, storeVars, sessions,
                    elapsed, onlineAt, waitResult, linkOutcome, search_results,
                    counts, dataVars, mainVars, dropOutcome >>

----------------------------------------------------------------------------
(* generate_markdown_table on its own *)

\* the lists of outcomes handed to generate_markdown_table
OutcomeLists ==
    LET outcome == [ test_name : { CheckName[1], CheckName[2] },
                     status : { "PASS", "FAIL" },
                     latency_ms : 0..MaxLatency,
                     details : { Detail("details", NA, NA, NA) } ]
    IN  UNION { [ 1..n -> outcome ] : n \in 0..MaxOutcomes }

RenderReport ==
    /\ pc = "report"
    /\ pc' = "reported"
    /\ report' = generate_markdown_table(results)
    /\ UNCHANGED << results, raised, calls, injected, storeVars, sessions,
                    elapsed, onlineAt, waitResult, linkOutcome, search_results,
                    counts, dataVars, client, exit_code, cancelled, dropOutcome >>

----------------------------------------------------------------------------
(* Initial states *)

\* What earlier runs may have left in the store: up to MaxLeftover nodes of
\* the sample data, with or without the relationships between them.
LeftoverNodes(n) == [ i \in 1..n |-> SampleDocuments[((i - 1) % 3) + 1] ]

LeftoverStores ==
    { [ nodes |-> LeftoverNodes(n), rels |-> r, index |-> ix ] :
        n \in 0..MaxLeftover, ix \in IndexStates,
        r \in { << >>, << Relationship(1, 1, "TREATED_BY", TRUE) >> } }

\* what a complete run has left
CompleteRunStore ==
    [ nodes |-> InsertedNodes(<< >>, SampleDocuments),
      rels |-> CreatedRelationships(InsertedNodes(<< >>, SampleDocuments),
                                    SampleRelationships, TRUE),
      index |-> "ONLINE" ]

InitStores ==
    { st \in LeftoverStores : Len(st.rels) = 0 \/ Len(st.nodes) > 0 }
        \cup { CompleteRunStore }

InitRun ==
    /\ pc = "check1"
    /\ results = << >>
    /\ raised = [ k \in 1..5 |-> "none" ]
    /\ calls = [ r \in RequestKinds |-> 0 ]
    /\ injected = FALSE
    /\ sessions = 0
    /\ elapsed = 0
    /\ onlineAt = -1
    /\ waitResult = "none"
    /\ linkOutcome = [ dynamic |-> "none", fallback |-> "none" ]
    /\ search_results = << >>
    /\ counts = [ node_count |-> NA, rel_count |-> NA, nodes_with_embeddings |-> NA ]
    /\ client = "none"
    /\ exit_code = NoExit
    /\ report = NoReport
    /\ cancelled = FALSE
    /\ dropOutcome = "none"
    /\ \E st \in InitStores :
         /\ nodes = st.nodes
         /\ rels = st.rels
         /\ index = st.index

\* The program as it is: the data of create_sample_health_data.
Init ==
    /\ InitRun
    /\ documents = SampleDocuments
    /\ relationships = SampleRelationships

\* The same sequence over other data sets, for what the operations do on
\* data the sample does not exercise.
DocumentChoices ==
    { SampleDocuments,
      << SampleDocuments[1], SampleDocuments[3] >>,
      << Doc("Symptom", "Arrhythmia", NoEmbedding), SampleDocuments[2],
         SampleDocuments[3] >>,
      << SampleDocuments[2], SampleDocuments[3] >>,
      << >>,
      SampleDocuments \o << Doc("Symptom", "Tachycardia", 45) >> }

RelationshipChoices ==
    { SampleRelationships,
      << >>,
      << SampleRelationships[3] >>,
      SampleRelationships \o << << "Arrhythmia", "CAUSES", "Stroke" >> >> }

InitData ==
    /\ InitRun
    /\ documents \in DocumentChoices
    /\ relationships \in RelationshipChoices

\* generate_markdown_table applied to a list of outcomes of any content
InitReport ==
    /\ pc = "report"
    /\ results \in OutcomeLists
    /\ raised = [ k \in 1..5 |-> "none" ]
    /\ calls = [ r \in RequestKinds |-> 0 ]
    /\ injected = FALSE
    /\ sessions = 0
    /\ elapsed = 0
    /\ onlineAt = -1
    /\ waitResult = "none"
    /\ linkOutcome = [ dynamic |-> "none", fallback |-> "none" ]
    /\ search_results = << >>
    /\ counts = [ node_count |-> NA, rel_count |-> NA, nodes_with_embeddings |-> NA ]
    /\ client = "none"
    /\ exit_code = NoExit
    /\ report = NoReport
    /\ cancelled = FALSE
    /\ dropOutcome = "none"
    /\ nodes = << >>
    /\ rels = << >>
    /\ index = "ABSENT"
    /\ documents = << >>
    /\ relationships = << >>

Next ==
    \/ Construct
    \/ MainExit
    \/ CallerDeadline
    \/ VerifyConnection
    \/ DropIndex
    \/ DeleteAll
    \/ CreateIndex
    \/ Poll
    \/ Sleep
    \/ WaitTimeout
    \/ IndexComesOnline
    \/ InsertDocuments
    \/ LinkDynamic
    \/ LinkFallback
    \/ Search
    \/ Consistency

Spec == Init /\ [][Next]_vars

\* The program as it is, and running on: a poll that is due is issued,
\* time.sleep returns, and the loop condition is evaluated.
SpecLive == Init /\ [][Next]_vars /\ WF_vars(Poll \/ Sleep \/ WaitTimeout)

SpecData == InitData /\ [][Next]_vars

NextReport == RenderReport

SpecReport == InitReport /\ [][NextReport]_vars

----------------------------------------------------------------------------
TypeOK ==
    /\ pc \in { "check1", "clear_drop", "clear_delete", "create_index",
                "wait_loop", "wait_sleep", "insert", "link_dynamic",
                "link_fallback", "search", "consistency", "done", "propagated",
                "report", "reported" }
    /\ client \in { "none", "open", "failed", "closed" }
    /\ exit_code \in { NoExit, 0, 1 }
    /\ cancelled \in BOOLEAN
    /\ index \in IndexStates
    /\ sessions \in 0..2
    /\ elapsed \in 0..(Timeout + PollInterval)
    /\ onlineAt \in -1..(Timeout + PollInterval)
    /\ Len(results) <= 5

----------------------------------------------------------------------------
(* Properties *)

\* check k has been attempted: one of its requests has been issued
Attempted(k) == \E r \in RequestsOfCheck(k) : calls[r] > 0

\* no request of a check after check k has been issued
NothingAfter(k) ==
    \A j \in (k + 1)..5 : \A r \in RequestsOfCheck(j) : calls[r] = 0

AllPassUpTo(k) == \A j \in 1..k : results[j].status = "PASS"

\* C1: when check 1, 2 or 3 fails (verify_connection returned False, or an
\* exception reached the check's handler), the run is over, the list holds
\* the outcomes of the checks up to that one, the last of them the single
\* FAIL, and no request of a later check has been or will be issued.
C1_FatalFailureHalts ==
    \A k \in 1..3 :
        raised[k] # "none" =>
            /\ pc = "done"
            /\ Len(results) = k
            /\ results[k].test_name = CheckName[k]
            /\ results[k].status = "FAIL"
            /\ AllPassUpTo(k - 1)
            /\ NothingAfter(k)

\* a run that ended in the TimeoutError of check 2
C1_Witness ==
    /\ pc = "done"
    /\ raised[2] = "TimeoutError"
    /\ Len(results) = 2
    /\ results[2].status = "FAIL"

\* C2: a failure of check 4 or 5 is recorded as FAIL and does not end the
\* run: once checks 1-3 have passed, check 5 is run whatever check 4 gave,
\* and the list returned holds five outcomes.
C2_NonFatalFailureContinues ==
    /\ \A k \in 4..5 :
         raised[k] # "none" => Len(results) >= k /\ results[k].status = "FAIL"
    /\ (raised[4] # "none" /\ pc # "done") => pc = "consistency"
    /\ (pc = "done" /\ Len(results) >= 3 /\ AllPassUpTo(3)) =>
           /\ Len(results) = 5
           /\ calls["count"] = 1

\* a run in which check 4 failed and check 5 ran all the same
C2_Witness ==
    /\ pc = "done"
    /\ raised[4] # "none"
    /\ calls["count"] = 1
    /\ Len(results) = 5

\* C3: the list holds one outcome per check attempted and finished so
\* far, named in step order, and a step never changes or removes an
\* outcome that is in the list.
C3_OutcomesInOrderAndImmutable ==
    /\ [](/\ Len(results) <= 5
          /\ \A i \in 1..Len(results) :
               results[i].test_name = CheckName[i] /\ Attempted(i)
          /\ \A k \in 1..5 :
               Attempted(k) =>
                   /\ Len(results) >= k - 1
                   /\ (Len(results) = k - 1) =>
                          pc \notin { "done", "check1" } /\ NothingAfter(k))
    /\ [][/\ Len(results') >= Len(results)
          /\ Len(results') <= Len(results) + 1
          /\ \A i \in 1..Len(results) : results'[i] = results[i]]_vars

\* all five outcomes recorded
C3_Witness ==
    /\ pc = "done"
    /\ Len(results) = 5
    /\ results[4].status = "FAIL"
    /\ results[5].status = "PASS"

\* the index was ONLINE strictly before the timeout of the wait elapsed
OnlineBeforeTimeout == onlineAt >= 0 /\ onlineAt < Timeout

\* C4: once _wait_for_index_online has ended, by its return or by its
\* TimeoutError, it has returned normally if the index was ONLINE strictly
\* before the timeout elapsed, and raised TimeoutError if it was not.
C4_ReturnsIffOnlineBeforeTimeout ==
    waitResult \in { "returned", "TimeoutError" } =>
        (waitResult = "returned" <=> OnlineBeforeTimeout)

Failed(o) == o \notin { "none", "ok" }

\* check 3 ended in FAIL with exception e and the run is over
Check3FailedWith(e) ==
    /\ raised[3] = e
    /\ pc = "done"
    /\ Len(results) = 3
    /\ results[3].status = "FAIL"

\* C5 as stated: the dynamic strategy is attempted first; whenever that
\* attempt fails, the fallback is attempted once and the first failure is
\* not surfaced; check 3 fails and the run halts only when the fallback
\* fails too.
C5_AnyDynamicFailureFallsBack ==
    /\ calls["link_fallback"] <= calls["link_dynamic"]
    /\ calls["link_dynamic"] <= 1
    /\ Failed(linkOutcome.dynamic) =>
           /\ pc = "link_fallback" \/ calls["link_fallback"] = 1
           /\ raised[3] # linkOutcome.dynamic \/ Failed(linkOutcome.fallback)
    /\ (calls["link_dynamic"] = 1 /\ raised[3] # "none") =>
           Failed(linkOutcome.fallback)

\* C5, amended: the dynamic strategy is attempted first and once. When it
\* fails with a Neo4jError the fallback is attempted once with the same
\* triples, and if that succeeds check 3 passes and the first failure is
\* surfaced nowhere. When it fails with another exception no fallback is
\* attempted. create_relationships fails exactly when the dynamic attempt
\* raised another exception than Neo4jError or the fallback failed, and
\* then check 3 is FAIL with that exception and the run is over.
C5_Neo4jErrorFallsBack ==
    /\ calls["link_fallback"] <= calls["link_dynamic"]
    /\ calls["link_dynamic"] <= 1
    /\ linkOutcome.dynamic = "Neo4jError" =>
           pc = "link_fallback" \/ calls["link_fallback"] = 1
    /\ linkOutcome.dynamic \in { "none", "ok", "DriverError" } =>
           calls["link_fallback"] = 0 /\ linkOutcome.fallback = "none"
    /\ (linkOutcome.dynamic = "Neo4jError" /\ linkOutcome.fallback = "ok") =>
           /\ raised[3] = "none"
           /\ results[3].status = "PASS"
           /\ rels = CreatedRelationships(nodes, relationships, FALSE)
    /\ linkOutcome.dynamic = "DriverError" => Check3FailedWith("DriverError")
    /\ Failed(linkOutcome.fallback) => Check3FailedWith(linkOutcome.fallback)
    /\ (calls["link_dynamic"] = 1 /\ raised[3] # "none") =>
           linkOutcome.dynamic = "DriverError" \/ Failed(linkOutcome.fallback)

\* the dynamic attempt raised Neo4jError, the fallback succeeded, check 3
\* passed
C5_Witness ==
    /\ linkOutcome.dynamic = "Neo4jError"
    /\ linkOutcome.fallback = "ok"
    /\ results[3].status = "PASS"
    /\ \A i \in 1..Len(rels) : rels[i].label = "RELATED_TO"

\* the source and the target of a triple both name a node of the store
Resolves(ns, tr) == MatchByName(ns, tr[1]) # {} /\ MatchByName(ns, tr[3]) # {}

ResolvedCount(ns, T) == Cardinality({ m \in 1..Len(T) : Resolves(ns, T[m]) })

\* this step is a request of create_relationships that succeeds
LinkSucceeds ==
    \/ pc = "link_dynamic" /\ linkOutcome'.dynamic = "ok"
    \/ pc = "link_fallback" /\ linkOutcome'.fallback = "ok"

\* C6: when create_relationships returns normally on triples that all
\* name existing entities, the store holds exactly len(T) relationships
\* more than before the call, under the dynamic strategy and under the
\* fallback alike; a failed dynamic attempt leaves the relationships as
\* they were.
C6_CountGrowsByLenT ==
    [][/\ (LinkSucceeds /\ ResolvedCount(nodes, relationships) = Len(relationships)) =>
              RelCount(rels') =
                  RelCount(rels) + Len(relationships)
       /\ (pc = "link_dynamic" /\ ~LinkSucceeds) => rels' = rels]_vars

\* the fallback created the three relationships of the sample after the
\* dynamic attempt had failed
C6_Witness ==
    /\ linkOutcome.dynamic = "Neo4jError"
    /\ linkOutcome.fallback = "ok"
    /\ Len(relationships) = 3
    /\ ResolvedCount(nodes, relationships) = 3
    /\ RelCount(rels) = 3

\* the three counts as they are in the store
StoredCountsAllThree ==
    NodeCount(nodes) = 3 /\ RelCount(rels) = 3 /\ EmbeddedCount(nodes) = 3

\* a count query of check 5 raised
CountQueryRaised == raised[5] \in { "Neo4jError", "DriverError" }

\* C7 as stated: check 5 is PASS if and only if the three stored counts are
\* 3, and when one differs it is FAIL with a detail reporting the counts.
C7_PassIffStoredCounts ==
    Len(results) = 5 =>
        /\ results[5].status = "PASS" <=> StoredCountsAllThree
        /\ ~StoredCountsAllThree =>
               /\ results[5].status = "FAIL"
               /\ results[5].details =
                      Detail("Data inconsistency", NodeCount(nodes), RelCount(rels),
                             EmbeddedCount(nodes))

\* C7, amended: when the three count queries succeed, check 5 is PASS if
\* and only if the stored node count, relationship count and count of nodes
\* with an embedding are all 3, and otherwise FAIL with a detail reporting
\* the three counts; when a count query raises, check 5 is FAIL with the
\* exception as detail, whatever the store holds.
C7_PassIffCountsReadAreThree ==
    Len(results) = 5 =>
        IF CountQueryRaised
        THEN /\ results[5].status = "FAIL"
             /\ results[5].details = Detail(raised[5], NA, NA, NA)
        ELSE /\ counts = [ node_count |-> NodeCount(nodes),
                           rel_count |-> RelCount(rels),
                           nodes_with_embeddings |-> EmbeddedCount(nodes) ]
             /\ results[5].status = "PASS" <=> StoredCountsAllThree
             /\ results[5].status = "PASS" =>
                    results[5].details = Detail("Verified", 3, 3, NA)
             /\ results[5].status # "PASS" =>
                    /\ results[5].status = "FAIL"
                    /\ results[5].details =
                           Detail("Data inconsistency", counts.node_count,
                                  counts.rel_count, counts.nodes_with_embeddings)

\* three nodes and three relationships, one node without embedding: FAIL
C7_Witness ==
    /\ Len(results) = 5
    /\ counts = [ node_count |-> 3, rel_count |-> 3, nodes_with_embeddings |-> 2 ]
    /\ results[5].status = "FAIL"

\* the search request of check 4 raised
SearchRaised == raised[4] \in { "Neo4jError", "DriverError" }

\* C8: check 4 is PASS if and only if the search returned a list with at
\* least one hit, whose first hit is named Arrhythmia and has at least one
\* relationship; in every other case, a search exception included, it is
\* FAIL.
C8_SearchPassIffTopHitArrhythmiaWithRelationships ==
    Len(results) >= 4 =>
        /\ results[4].status \in { "PASS", "FAIL" }
        /\ results[4].status = "PASS" <=>
               /\ ~SearchRaised
               /\ Len(search_results) > 0
               /\ search_results[1].name = "Arrhythmia"
               /\ Len(search_results[1].relationships) > 0
        /\ results[4].status = "PASS" =>
               \E i \in 1..Len(nodes) :
                   /\ nodes[i].name = "Arrhythmia"
                   /\ nodes[i].embedding = QuerySeed
                   /\ \E m \in 1..Len(rels) : rels[m].src = i

\* the top hit is Arrhythmia, without relationships: FAIL
C8_Witness ==
    /\ Len(results) >= 4
    /\ Len(search_results) > 0
    /\ search_results[1].name = "Arrhythmia"
    /\ search_results[1].relationships = << >>
    /\ results[4].status = "FAIL"

C10_CleanRunAllPass ==
    (pc = "done" /\ ~injected /\ OnlineBeforeTimeout) =>
        /\ Len(results) = 5
        /\ \A i \in 1..5 : results[i].status = "PASS"
        /\ Len(search_results) > 0
        /\ search_results[1].name = "Arrhythmia"
        /\ Len(search_results[1].relationships) >= 1
        /\ Banner(results) = [ text |-> "All tests passed!", failed |-> 0 ]

----------------------------------------------------------------------------
(* main: the exit code *)

AllPass(rs) == \A i \in 1..Len(rs) : rs[i].status = "PASS"

----------------------------------------------------------------------------
(* Sessions *)

\* positions of the run at which no client operation is in progress
BetweenOperations ==
    pc \in { "check1", "clear_drop", "create_index", "insert", "link_dynamic",
             "search", "consistency", "done" }

\* C12: every session a client operation or the count block of check 5
\* acquires is released when the operation is left, by its end, a return or
\* an exception: between two operations, and once run_graphrag_test has
\* returned, no session is open. Inside an operation the open sessions are
\* the one of the operation, and during time.sleep of the wait also the one
\* of the poll.
C12_SessionsReleased ==
    /\ BetweenOperations => sessions = 0
    /\ pc \in { "clear_delete", "wait_loop", "link_fallback" } => sessions = 1
    /\ pc = "wait_sleep" => sessions = 2

\* the run has ended by an exception of a poll, raised with the sessions of
\* create_vector_index and of the poll open, after the poll session had been
\* opened and closed by earlier iterations
C12_Witness ==
    /\ pc = "done"
    /\ waitResult \in { "Neo4jError", "DriverError" }
    /\ calls["poll"] >= 2
    /\ sessions = 0

----------------------------------------------------------------------------
(* The index and the checks that need it *)

\* a request of check 3 or check 4 has been issued, or is the next one
IngestionOrSearchBegun ==
    \/ pc \in { "insert", "link_dynamic", "link_fallback", "search" }
    \/ \E r \in { "insert", "link_dynamic", "link_fallback", "search" } :
         calls[r] > 0

\* C13: the insert and the linking of check 3 and the similarity query of
\* check 4 are issued only after a poll of _wait_for_index_online of the
\* same run has seen the index ONLINE (so that the wait returned and check 2
\* passed); at that time and from then on the index is ONLINE.
C13_IngestionAndSearchAfterOnline ==
    IngestionOrSearchBegun =>
        /\ waitResult = "returned"
        /\ calls["poll"] >= 1
        /\ index = "ONLINE"
        /\ onlineAt >= 0
        /\ Len(results) >= 2
        /\ results[2].status = "PASS"

\* the similarity query has been issued in a run whose wait had to poll more
\* than once, the index having come ONLINE during the wait
C13_Witness ==
    /\ calls["search"] = 1
    /\ calls["insert"] = 1
    /\ calls["poll"] >= 2
    /\ onlineAt > 0

\* C14: once check 2 has passed, the index health_vector_index exists (the
\* store holds one index of that name, being built or ONLINE) in every
\* later state of the run: nothing after check 2 drops it.
C14_IndexExistsAfterCheck2 ==
    (Len(results) >= 2 /\ results[2].status = "PASS") => index # "ABSENT"

\* the run has ended with check 2 passed, the index of an earlier run
\* having been dropped and created anew
C14_Witness ==
    /\ pc = "done"
    /\ Len(results) = 5
    /\ results[2].status = "PASS"
    /\ dropOutcome = "ok"
    /\ index = "ONLINE"

----------------------------------------------------------------------------
(* verify_connection *)

\* C15: verify_connection never raises. When acquiring the session or the
\* probe query fails, with a Neo4jError or any other exception, it returns
\* False: what the handler of check 1 catches is the check's own
\* "Connection verification returned False", never the exception of the
\* request. It returns True, and check 1 passes, only when the probe has
\* succeeded.
C15_VerifyConnectionNeverRaises ==
    [][ (pc = "check1" /\ pc' # "check1") =>
            /\ calls'["verify"] = 1
            /\ raised'[1] \in { "none", "Exception" }
            /\ results'[1].status = "PASS" <=> ~injected'
            /\ injected' =>
                 /\ raised'[1] = "Exception"
                 /\ results'[1].details.msg = "Connection verification returned False"
                 /\ pc' = "done" ]_vars

\* the probe has failed and check 1 has recorded that verify_connection
\* returned False
C15_Witness ==
    /\ calls["verify"] = 1
    /\ injected
    /\ raised[1] = "Exception"
    /\ results[1].status = "FAIL"

----------------------------------------------------------------------------
(* vector_search_with_graph *)

\* vector_search_with_graph has returned a list to check 4
SearchReturned ==
    /\ calls["search"] = 1
    /\ Len(results) >= 4
    /\ raised[4] \in { "none", "Exception" }

\* the relationships of the store that leave the node of the given name
OutgoingOf(name) == { j \in 1..Len(rels) : nodes[rels[j].src].name = name }

\* C16: the list vector_search_with_graph returns holds the top_k nearest
\* indexed nodes, or all of them when they are fewer, ordered by descending
\* score. A hit without outgoing relationship is in the list like any other,
\* with an empty relationship list; no relationship of any hit has a null
\* target, and each hit has one entry per relationship that leaves it. When
\* nothing matches, the list is empty and the search has not raised: check 4
\* fails on its own "No search results returned".
C16_SearchResultShape ==
    SearchReturned =>
        /\ Len(search_results) <= TopK
        /\ Len(search_results) = Min(TopK, EmbeddedCount(nodes))
        /\ \A a, b \in 1..Len(search_results) :
             a < b => search_results[a].similarity_score
                        >= search_results[b].similarity_score
        /\ \A m \in 1..Len(search_results) :
             LET hit == search_results[m]
             IN  /\ \A x \in 1..Len(hit.relationships) :
                      hit.relationships[x].target_name # NULL
                 /\ Len(hit.relationships) = Cardinality(OutgoingOf(hit.name))
                 /\ OutgoingOf(hit.name) = {} => hit.relationships = << >>
        /\ EmbeddedCount(nodes) = 0 =>
             /\ search_results = << >>
             /\ raised[4] = "Exception"
             /\ results[4].details.msg = "No search results returned"

\* of four indexed nodes the search has returned three, one of them without
\* outgoing relationship and one with
C16_Witness ==
    /\ SearchReturned
    /\ EmbeddedCount(nodes) > TopK
    /\ Len(search_results) = TopK
    /\ \E m \in 1..TopK : search_results[m].relationships = << >>
    /\ \E m \in 1..TopK : search_results[m].relationships # << >>

----------------------------------------------------------------------------
(* generate_markdown_table *)

\* the outcomes of the list that are not PASS
NotPassed(rs) == { i \in 1..Len(rs) : rs[i].status # "PASS" }

\* C17: in the report generate_markdown_table makes of a list of outcomes,
\* the Status line is "All tests passed!" exactly when every outcome is
\* PASS, and otherwise the failed line with the number of outcomes that are
\* not PASS; the counts of passed and failed outcomes add up to the length
\* of the list; the table has one row per outcome, in the order of the
\* list; and for the empty list the average latency is 0.
C17_ReportOfOutcomes ==
    pc = "reported" =>
        /\ report.status_line.text = "All tests passed!" <=> AllPass(results)
        /\ ~AllPass(results) =>
             /\ report.status_line.text = "test(s) failed"
             /\ report.status_line.failed = Cardinality(NotPassed(results))
        /\ report.failed_tests = Cardinality(NotPassed(results))
        /\ report.passed_tests + report.failed_tests = Len(results)
        /\ report.total_tests = Len(results)
        /\ Len(report.rows) = Len(results)
        /\ \A i \in 1..Len(results) :
             /\ report.rows[i].test_name = results[i].test_name
             /\ report.rows[i].status = results[i].status
             /\ report.rows[i].latency_ms = results[i].latency_ms
             /\ report.rows[i].details = results[i].details
        /\ results = << >> => report.avg_latency = 0

\* the report of three outcomes, the second and third of them failed
C17_Witness ==
    /\ pc = "reported"
    /\ Len(results) = 3
    /\ results[1].status = "PASS"
    /\ results[2].status = "FAIL"
    /\ results[3].status = "FAIL"
    /\ results[1].test_name # results[2].test_name
    /\ report.status_line = [ text |-> "test(s) failed", failed |-> 2 ]
    /\ Len(report.rows) = 3

----------------------------------------------------------------------------
(* The wait and its caller *)

\* C18: the wait of _wait_for_index_online can be cancelled by its caller.
\* Once the budget of the caller has run out, a wait that has not reached
\* its own timeout stops: it issues no further poll and does not sleep
\* again.
C18_WaitStopsOnCallerDeadline ==
    [][ (cancelled /\ pc \in { "wait_loop", "wait_sleep" } /\ WaitContinues(elapsed)) =>
            /\ calls'["poll"] = calls["poll"]
            /\ pc' # "wait_sleep"
            /\ elapsed' = elapsed ]_vars

----------------------------------------------------------------------------
(* clear_database: the index drop *)

\* C19 as stated: whatever the failure of the index drop, clear_database
\* goes on to the deletion of all nodes and relationships.
C19_AnyDropFailureIsIgnored ==
    Failed(dropOutcome) => (pc = "clear_delete" \/ calls["delete_all"] = 1)

\* C19: a Neo4jError of the index drop is not escalated: clear_database goes
\* on to the deletion of all nodes and relationships, and if check 2 fails,
\* it fails by a later request. Any other exception of the index drop leaves
\* clear_database at once: nothing is deleted, check 2 is FAIL with that
\* exception and the run is over.
C19_DropNeo4jErrorIsIgnored ==
    /\ dropOutcome = "Neo4jError" =>
         /\ pc = "clear_delete" \/ calls["delete_all"] = 1
         /\ raised[2] # "none" => calls["delete_all"] = 1
    /\ dropOutcome = "DriverError" =>
         /\ calls["delete_all"] = 0
         /\ pc = "done"
         /\ raised[2] = "DriverError"
         /\ Len(results) = 2
         /\ results[2].status = "FAIL"

\* the index drop has raised a Neo4jError and check 2 has passed
C19_Witness ==
    /\ dropOutcome = "Neo4jError"
    /\ calls["delete_all"] = 1
    /\ Len(results) >= 2
    /\ results[2].status = "PASS"

----------------------------------------------------------------------------
(* No retry *)

\* C20: run_graphrag_test retries nothing. In one run verify_connection, the
\* two requests of clear_database, the creation of the index, the insert,
\* the dynamic linking, the search and the count block are each issued at
\* most once, whatever their outcome; the static linking is issued at most
\* once too, and only after the dynamic one has raised a Neo4jError. Each
\* check has at most one outcome.
C20_NoCheckRetried ==
    /\ \A r \in RequestKinds \ { "poll" } : calls[r] <= 1
    /\ calls["link_fallback"] = 1 =>
         (calls["link_dynamic"] = 1 /\ linkOutcome.dynamic = "Neo4jError")
    /\ Len(results) <= 5
    /\ \A k \in 1..Len(results) : results[k].test_name = CheckName[k]

\* the run has ended after failures of the static linking's predecessor and
\* of the search, each issued once
C20_Witness ==
    /\ pc = "done"
    /\ calls["link_dynamic"] = 1
    /\ calls["link_fallback"] = 1
    /\ calls["search"] = 1
    /\ raised[4] \in { "Neo4jError", "DriverError" }
    /\ calls["count"] = 1

----------------------------------------------------------------------------
(* Re-running the sequence *)

\* C21: whatever an earlier run, complete or not, has left in the store, a
\* run of the sample data whose checks 1-3 pass leaves the store with the
\* three sample entities and three relationships between them, one per
\* sample triple, and nothing else: a run after a run leaves what one run
\* leaves, without duplicate and without relationship of a deleted node.
C21_RerunLeavesSampleStore ==
    (Len(results) >= 3 /\ results[3].status = "PASS") =>
        /\ nodes = InsertedNodes(<< >>, SampleDocuments)
        /\ NodeCount(nodes) = 3
        /\ RelCount(rels) = 3
        /\ \A j \in 1..3 :
             /\ nodes[rels[j].src].name = SampleRelationships[j][1]
             /\ (IF rels[j].label = "RELATED_TO" THEN rels[j].type ELSE rels[j].label)
                  = SampleRelationships[j][2]
             /\ nodes[rels[j].tgt].name = SampleRelationships[j][3]
        /\ index = "ONLINE"

\* check 3 has passed, by the static linking, in a run that had the index
\* dropped, and the store holds three entities and three relationships
C21_Witness ==
    /\ Len(results) >= 3
    /\ results[3].status = "PASS"
    /\ dropOutcome = "ok"
    /\ linkOutcome.dynamic = "Neo4jError"
    /\ Len(nodes) = 3
    /\ Len(rels) = 3

----------------------------------------------------------------------------
(* What run_graphrag_test returns *)

\* C22: run_graphrag_test never lets an exception of a client operation out:
\* whatever requests fail, each failure is caught by the handler of its
\* check and recorded, and the run returns a list. The list has 1, 2 or 3
\* outcomes when check 1, 2 or 3 has failed, and 5 otherwise: never none and
\* never 4.
C22_ReturnsListOfOneTwoThreeOrFive ==
    /\ pc # "propagated"
    /\ \A k \in 1..5 : raised[k] # "none" =>
         (Len(results) >= k /\ results[k].status = "FAIL")
    /\ pc = "done" =>
         /\ Len(results) \in { 1, 2, 3, 5 }
         /\ Len(results) < 5 <=> results[Len(results)].status = "FAIL"
                                   /\ Len(results) <= 3
         /\ Len(results) = 5 <=> AllPassUpTo(3)

\* the run has returned five outcomes after exceptions of the search and of
\* the count block
C22_Witness ==
    /\ pc = "done"
    /\ raised[4] = "DriverError"
    /\ raised[5] = "Neo4jError"
    /\ Len(results) = 5

----------------------------------------------------------------------------
(* The wait: termination *)

\* ceil(timeout / 2)
MaxPolls == (Timeout + PollInterval - 1) \div PollInterval

\* a step that issues a poll
PollStep == calls'["poll"] # calls["poll"]

\* C23: _wait_for_index_online terminates. A poll is issued only while the
\* elapsed time is below the timeout; a poll that returns a state other
\* than ONLINE is followed by a sleep of 2 time units, and only such a poll
\* is; so there are at most ceil(timeout / 2) polls. The wait ends by a
\* return on a poll that saw ONLINE or by TimeoutError, an exception of a
\* poll apart, and every wait that has begun does end.
C23_WaitTerminates ==
    /\ [](calls["poll"] <= MaxPolls)
    /\ [](pc \in { "wait_loop", "wait_sleep" } => waitResult = "none")
    /\ [](waitResult = "returned" => index = "ONLINE")
    /\ [](waitResult = "TimeoutError" => (elapsed >= Timeout /\ calls["poll"] = MaxPolls))
    /\ [][ PollStep =>
             /\ pc = "wait_loop"
             /\ elapsed < Timeout
             /\ calls["poll"] * PollInterval = elapsed
             /\ pc' = "wait_sleep" <=> (waitResult' = "none" /\ index # "ONLINE")
             /\ waitResult' = "returned" <=> (index = "ONLINE" /\ pc' = "insert") ]_vars
    /\ [][ (pc = "wait_sleep" /\ pc' # pc) =>
             (pc' = "wait_loop" /\ elapsed' = elapsed + PollInterval) ]_vars
    /\ (pc \in { "wait_loop", "wait_sleep" }) ~> (waitResult # "none")

\* the wait has ended by TimeoutError after the last poll it may issue
C23_Witness ==
    /\ waitResult = "TimeoutError"
    /\ calls["poll"] = MaxPolls
    /\ elapsed = Timeout
    /\ pc = "done"

----------------------------------------------------------------------------
(* Read-only checks *)

\* a step that issues the request of check 1, 4 or 5
ReadStep ==
    \E r \in { "verify", "search", "count" } : calls'[r] # calls[r]

\* C24: checks 1, 4 and 5 are read-only. The probe of verify_connection,
\* the query of vector_search_with_graph and the count queries leave the
\* nodes, the relationships and the index of the store as they are, whether
\* the check passes or fails; from the end of check 3 on the store does not
\* change, and the counts check 5 reads are those of that store.
C24_Checks145ReadOnly ==
    /\ [][ ReadStep => (nodes' = nodes /\ rels' = rels /\ index' = index) ]_vars
    /\ [][ (pc \in { "search", "consistency" }) =>
             (nodes' = nodes /\ rels' = rels /\ index' = index) ]_vars
    /\ [](counts.node_count # NA =>
             /\ counts.node_count = NodeCount(nodes)
             /\ counts.rel_count = RelCount(rels)
             /\ counts.nodes_with_embeddings = EmbeddedCount(nodes))

\* check 4 has failed on what the search returned and check 5 has counted
\* the entities and relationships that check 3 had stored
C24_Witness ==
    /\ pc = "done"
    /\ raised[4] = "Exception"
    /\ Len(search_results) > 0
    /\ counts.node_count = Len(nodes)
    /\ counts.node_count > 0
    /\ counts.rel_count > 0

----------------------------------------------------------------------------
(* Sessions open at the same time *)

\* the sessions open while the request of a step is under way: the step
\* either opens one, or uses the one its operation holds since its
\* previous request
HeldDuringRequest ==
    IF pc \in { "clear_delete", "link_fallback" } THEN sessions ELSE sessions + 1

\* C25: at no point of a run are more than two sessions open. Two are open
\* only from a poll of _wait_for_index_online to the end of the sleep that
\* follows it: the session of the poll inside the session that
\* create_vector_index still holds. Every other request is made with one
\* session open.
C25_AtMostTwoSessions ==
    /\ [](sessions \in 0..2)
    /\ [](sessions = 2 => pc = "wait_sleep")
    /\ [][ calls' # calls =>
             /\ HeldDuringRequest <= 2
             /\ HeldDuringRequest = 2 <=> pc = "wait_loop"
             /\ pc # "wait_loop" => HeldDuringRequest = 1 ]_vars

\* the wait sleeps after its second poll, with the sessions of
\* create_vector_index and of the poll open
C25_Witness ==
    /\ pc = "wait_sleep"
    /\ calls["poll"] = 2
    /\ sessions = 2

============================================================================
